---- MODULE Spec2Model ----
(***************************************************************************)
(* The three ingestion scripts of harvard-brainstem as one state machine:  *)
(*   "harvard"  - ingest_harvard.py  (feed -> AI analysis -> Supabase)      *)
(*   "dash"     - dash_ingest.py     (feed -> PDF download -> blob upload)  *)
(*   "pipeline" - pipeline.py        (feed -> PDF download -> blob upload)  *)
(* Strings are sequences of one-character strings, so that slicing,        *)
(* replacing, splitting and concatenation are computed, not assumed.       *)
(* External services (feed, HTTP, AI, database, blob store) answer         *)
(* nondeterministically at every call.                                     *)
(***************************************************************************)
EXTENDS Integers, Sequences, FiniteSets, TLC

VARIABLES
    variant,     \* which script is running
    env,         \* process environment: setting name -> "None" | "" | "v"
    feed,        \* what the feed URL currently serves: sequence of entries
    runs,        \* number of invocations of the script in this behaviour
    run,         \* current invocation, 1..runs
    pc,          \* position of the script
    exitCode,    \* process exit status of the current invocation
    papers,      \* harvard: main()'s papers; blob variants: feed.entries
    idx,         \* loop index over papers (1-based)
    lidx,        \* dash: inner loop index over entry.links
    analysis,    \* harvard: main()'s analysis of papers[idx]
    successful,  \* harvard: main()'s counter
    failed,      \* harvard: main()'s counter
    report,      \* harvard: the summary block printed by main()
    sink,        \* rows of harvard_papers / blobs of law-dropzone
    files,       \* pipeline: contents of DOWNLOAD_DIR
    now,         \* clock read by datetime.utcnow()
    contacted,   \* history: external services contacted in this invocation
    attempted,   \* history: loop indices whose iteration began, in order
    enrichLog,   \* history: Enricher calls of this invocation
    fetchLog,    \* history: content fetches of this invocation
    writes,      \* history: sink write calls of all invocations
    trouble,     \* history: some external call did not succeed
    sinkRun1,    \* history: the sink as the first invocation left it
    feedAnswer,  \* history: what feedparser.parse answered in this invocation
    world        \* the answers the Enricher and the database can give

vars == << variant, env, feed, runs, run, pc, exitCode, papers, idx, lidx,
           analysis, successful, failed, report, sink, files, now, contacted,
           attempted, enrichLog, fetchLog, writes, trouble, sinkRun1,
           feedAnswer, world >>

-----------------------------------------------------------------------------
(* Bounds of the model *)

\* longest feed snapshot of the small-feed specification
MaxFeed == 2
\* feed lengths of the batch specification run to MAX_PAPERS_PER_RUN + BatchSlack
BatchSlack == 2
\* summary lengths of the truncation specification lie within TruncSlack of a limit
TruncSlack == 8

(* Program constants *)

MAX_PAPERS_PER_RUN == 10
MAX_TEXT_LENGTH == 8000
SUMMARY_COLUMN_LENGTH == 500
FINDINGS_FALLBACK_LENGTH == 200
SIGNIFICANCE_FALLBACK_LENGTH == 300
HTTP_OK == 200

-----------------------------------------------------------------------------
(* Python built-ins used by the scripts *)

Min(a, b) == IF a < b THEN a ELSE b

\* s[:n] for n >= 0
PySlice(s, n) == SubSeq(s, 1, Min(n, Len(s)))

\* s.replace(a, b) for one-character a and b
PyReplace(s, a, b) == [i \in 1..Len(s) |-> IF s[i] = a THEN b ELSE s[i]]

\* s.endswith(suffix)
PyEndsWith(s, suffix) ==
    /\ Len(s) >= Len(suffix)
    /\ SubSeq(s, Len(s) - Len(suffix) + 1, Len(s)) = suffix

\* s.split(sep)[-1] for a one-character sep
PyLastSegment(s, sep) ==
    LET cuts == {i \in 1..Len(s) : s[i] = sep}
        last == IF cuts = {} THEN 0 ELSE CHOOSE i \in cuts : \A j \in cuts : j <= i
    IN SubSeq(s, last + 1, Len(s))

\* s.strip(): leading and trailing whitespace removed
PyStrip(s) ==
    LET ink == {i \in 1..Len(s) : s[i] \notin {" ", "\n", "\t"}}
    IN IF ink = {} THEN << >>
       ELSE SubSeq(s, CHOOSE i \in ink : \A j \in ink : i <= j,
                      CHOOSE i \in ink : \A j \in ink : j <= i)

\* d.get(key, default) on a mapping with string keys
PyGet(d, key, default) == IF key \in DOMAIN d THEN d[key] ELSE default

\* truth value of an environment value: None and "" are falsy
EnvTruthy(v) == v \notin {"None", ""}

(* Python values returned by json.loads and by analyze_paper_with_ai *)

PyNone == [t |-> "None"]
PyDict(d) == [t |-> "dict", d |-> d]
PyList(v) == [t |-> "list", v |-> v]

\* bool(value)
PyTruthy(value) ==
    CASE value.t = "None" -> FALSE
      [] value.t = "dict" -> DOMAIN value.d # {}
      [] value.t = "list" -> Len(value.v) > 0
      [] OTHER -> TRUE

-----------------------------------------------------------------------------
(* String literals of the scripts, and the Enricher replies of the model *)

ObjectText ==
    << "{", "\"", "t", "o", "p", "i", "c", "\"", ":", "\"", "t", "\"", ",",
       "\"", "f", "i", "n", "d", "i", "n", "g", "s", "\"", ":", "[", "\"",
       "f", "\"", "]", ",", "\"", "m", "e", "t", "h", "o", "d", "o", "l",
       "o", "g", "y", "\"", ":", "\"", "m", "\"", ",", "\"", "s", "i", "g",
       "n", "i", "f", "i", "c", "a", "n", "c", "e", "\"", ":", "\"", "s",
       "\"", ",", "\"", "k", "e", "y", "w", "o", "r", "d", "s", "\"", ":",
       "[", "\"", "k", "\"", "]", "}" >>

TitleLabel ==
    << "\n", "T", "i", "t", "l", "e", ":", " " >>

AuthorsLabel ==
    << "\n", "A", "u", "t", "h", "o", "r", "s", ":", " " >>

PublishedLabel ==
    << "\n", "P", "u", "b", "l", "i", "s", "h", "e", "d", ":", " " >>

SummaryLabel ==
    << "\n", "\n", "S", "u", "m", "m", "a", "r", "y", ":", "\n" >>

Newline ==
    << "\n" >>

Untitled ==
    << "U", "n", "t", "i", "t", "l", "e", "d" >>

Unknown ==
    << "U", "n", "k", "n", "o", "w", "n" >>

PdfSuffix ==
    << ".", "p", "d", "f" >>

PdfType ==
    << "a", "p", "p", "l", "i", "c", "a", "t", "i", "o", "n", "/", "p", "d",
       "f" >>

HtmlType ==
    << "t", "e", "x", "t", "/", "h", "t", "m", "l" >>

AcademicResearch ==
    << "A", "c", "a", "d", "e", "m", "i", "c", " ", "R", "e", "s", "e", "a",
       "r", "c", "h" >>

SeeSummary ==
    << "S", "e", "e", " ", "s", "u", "m", "m", "a", "r", "y" >>

KwResearch ==
    << "r", "e", "s", "e", "a", "r", "c", "h" >>

KwHarvard ==
    << "H", "a", "r", "v", "a", "r", "d" >>

KwAcademic ==
    << "a", "c", "a", "d", "e", "m", "i", "c" >>

HarvardDash ==
    << "H", "a", "r", "v", "a", "r", "d", " ", "D", "A", "S", "H" >>

MetadataJson ==
    << "{", "\"", "f", "e", "e", "d", "_", "u", "r", "l", "\"", ":", " ",
       "\"", "h", "t", "t", "p", "s", ":", "/", "/", "d", "a", "s", "h", ".",
       "h", "a", "r", "v", "a", "r", "d", ".", "e", "d", "u", "/", "f", "e",
       "e", "d", "/", "r", "s", "s", "_", "1", ".", "0", "/", "s", "i", "t",
       "e", "\"", ",", " ", "\"", "p", "r", "o", "c", "e", "s", "s", "e",
       "d", "_", "b", "y", "\"", ":", " ", "\"", "h", "a", "r", "v", "a",
       "r", "d", "-", "p", "i", "p", "e", "l", "i", "n", "e", "\"", ",", " ",
       "\"", "a", "i", "_", "m", "o", "d", "e", "l", "\"", ":", " ", "\"",
       "g", "p", "t", "-", "3", ".", "5", "-", "t", "u", "r", "b", "o", "\"",
       "}" >>

-----------------------------------------------------------------------------
(* Enricher replies and their parse (json.loads on the replies of the model) *)

\* message.content values the Enricher may return: a well-formed object,
\* prose, whitespace only, a JSON array, an empty JSON object
Replies ==
    << ObjectText, << "h", "i" >>, << " " >>, << "[", "]" >>, << "{", "}" >> >>

\* {} : a mapping with no keys
EmptyDict == [k \in {} |-> << >>]

ObjectValue ==
    [topic |-> << "t" >>, findings |-> << << "f" >> >>,
     methodology |-> << "m" >>, significance |-> << "s" >>,
     keywords |-> << << "k" >> >>]

\* json.loads(text): [ok |-> TRUE, val |-> value], or ok = FALSE for
\* json.JSONDecodeError
JsonLoads(text) ==
    CASE text = ObjectText -> [ok |-> TRUE, val |-> PyDict(ObjectValue)]
      [] text = << "[", "]" >> -> [ok |-> TRUE, val |-> PyList(<< >>)]
      [] text = << "{", "}" >> -> [ok |-> TRUE, val |-> PyDict(EmptyDict)]
      [] OTHER -> [ok |-> FALSE]

RECURSIVE JsonJoin(_)
JsonJoin(items) ==
    IF items = << >> THEN << >>
    ELSE << "\"" >> \o items[1] \o << "\"" >>
         \o (IF Len(items) > 1 THEN << ",", " " >> ELSE << >>)
         \o JsonJoin(Tail(items))

\* json.dumps(list of plain strings)
JsonDumpsList(items) == << "[" >> \o JsonJoin(items) \o << "]" >>

-----------------------------------------------------------------------------
(* ingest_harvard.py: pure parts *)

RequiredSettings ==
    {"AZURE_AI_ENDPOINT", "AZURE_AI_KEY", "SUPABASE_URL", "SUPABASE_KEY"}

\* validate_environment(): the names whose value is falsy
MissingSettings(e) == {name \in RequiredSettings : ~EnvTruthy(e[name])}

ValidateEnvironment(e) == MissingSettings(e) = {}

\* the paper dict built from one feed entry
PaperOf(entry) ==
    [title |-> PyGet(entry, "title", Untitled),
     link |-> PyGet(entry, "link", << >>),
     summary |-> PyGet(entry, "summary", << >>),
     published |-> PyGet(entry, "published", << >>),
     authors |-> PyGet(entry, "author", Unknown),
     id |-> PyGet(entry, "id", PyGet(entry, "link", << >>))]

\* the whole feed, with no cap
WholeFeed(entries) == entries

\* feed.entries[:MAX_PAPERS_PER_RUN]
BatchOf(entries) == PySlice(entries, MAX_PAPERS_PER_RUN)

\* fetch_harvard_papers() given feedparser's answer
FetchHarvardPapers(answer, entries) ==
    IF answer = "raise" \/ entries = << >> THEN << >>
    ELSE [i \in 1..Len(BatchOf(entries)) |-> PaperOf(BatchOf(entries)[i])]

\* the summary text placed in the request
SummaryForAI(paper) == PySlice(paper.summary, MAX_TEXT_LENGTH)

\* text_to_analyze, the user message of the request
TextToAnalyze(paper) ==
    TitleLabel \o paper.title \o AuthorsLabel \o paper.authors
    \o PublishedLabel \o paper.published \o SummaryLabel
    \o SummaryForAI(paper) \o Newline

\* the dict built when the reply is not JSON
FallbackAnalysis(text) ==
    PyDict([topic |-> AcademicResearch,
            findings |-> << PySlice(text, FINDINGS_FALLBACK_LENGTH) >>,
            methodology |-> SeeSummary,
            significance |-> PySlice(text, SIGNIFICANCE_FALLBACK_LENGTH),
            keywords |-> << KwResearch, KwHarvard, KwAcademic >>])

\* analyze_paper_with_ai() given the Enricher's answer: 0 is a raised
\* exception, k > 0 is the reply Replies[k].  analysis.get on a value that
\* is no dict raises AttributeError, which the outer handler turns into None.
AnalyzePaperWithAI(answer) ==
    IF answer = 0 THEN PyNone
    ELSE LET text == PyStrip(Replies[answer])
             parsed == JsonLoads(text)
             value == IF parsed.ok THEN parsed.val ELSE FallbackAnalysis(text)
         IN IF value.t = "dict" THEN value ELSE PyNone

\* main(): "if not analysis"
NotAnalysis(value) == ~PyTruthy(value)

\* the row store_in_supabase() sends
SupabaseData(paper, value, clock) ==
    [paper_id |-> paper.id,
     title |-> paper.title,
     authors |-> paper.authors,
     published_date |-> paper.published,
     link |-> paper.link,
     summary |-> PySlice(paper.summary, SUMMARY_COLUMN_LENGTH),
     ai_topic |-> PyGet(value.d, "topic", << >>),
     ai_findings |-> JsonDumpsList(PyGet(value.d, "findings", << >>)),
     ai_methodology |-> PyGet(value.d, "methodology", << >>),
     ai_significance |-> PyGet(value.d, "significance", << >>),
     ai_keywords |-> JsonDumpsList(PyGet(value.d, "keywords", << >>)),
     processed_at |-> clock,
     source |-> HarvardDash,
     metadata |-> MetadataJson]

(* The sink: a sequence of [key, val] rows (table rows or blobs) *)

SinkKeys(rows) == {rows[i].key : i \in 1..Len(rows)}

\* a plain insert: a second row under the same key
InsertAlways(rows, key, val) == Append(rows, [key |-> key, val |-> val])

\* upsert on the key column / upload_blob(overwrite=True)
Upsert(rows, key, val) ==
    IF key \in SinkKeys(rows)
    THEN [i \in 1..Len(rows) |->
             IF rows[i].key = key THEN [key |-> key, val |-> val] ELSE rows[i]]
    ELSE Append(rows, [key |-> key, val |-> val])

-----------------------------------------------------------------------------
(* Blob variants: pure parts *)

\* body served for url with the given status (the server's answer)
HttpBody(url, status) ==
    (IF status = HTTP_OK THEN << "%" >> ELSE << "!" >>) \o url

\* dash_ingest.py: pdf_url.split("/")[-1]
DashBlobName(href) == PyLastSegment(href, "/")

\* pipeline.py: entry.title.replace(" ", "_").replace("/", "_") + ".pdf"
PipelineFilename(title) ==
    PyReplace(PyReplace(title, " ", "_"), "/", "_") \o PdfSuffix

\* pipeline.py: link.endswith(".pdf")
IsPdfLink(link) == PyEndsWith(link, PdfSuffix)

\* BlobServiceClient.from_connection_string raises on None and on ""
ConnectionStringAccepted(value) == EnvTruthy(value)

\* the blob stored under name
BlobOf(rows, name) ==
    (CHOOSE r \in {rows[i] : i \in 1..Len(rows)} : r.key = name).val

-----------------------------------------------------------------------------
(* The state machine *)

Terminal == {"done", "exit", "crashed"}

NoReport == [printed |-> FALSE]

\* where the harvard loop goes after the iteration of index i
HarvardAfter(i, n) == IF i + 1 > n THEN "summary" ELSE "analyze"

\* where a blob loop goes after the iteration of index i
BlobAfter(i, n) == IF i + 1 > n THEN "done" ELSE "loop"

Fixed == << variant, env, feed, runs, world >>

HarvardLocals == << analysis, successful, failed, report >>

\* main(), step 1: validate_environment(), sys.exit(1) when it fails
HValidate ==
    /\ variant = "harvard" /\ pc = "start"
    /\ IF ValidateEnvironment(env)
       THEN pc' = "fetch" /\ exitCode' = exitCode
       ELSE pc' = "exit" /\ exitCode' = 1
    /\ UNCHANGED << Fixed, run, papers, idx, lidx, HarvardLocals, sink, files,
                    now, contacted, attempted, enrichLog, fetchLog, writes,
                    trouble, sinkRun1, feedAnswer >>

\* main() without the early return
NeverNoPapers(list) == FALSE

\* main(): "if not papers: return"
NoPapers(list) == list = << >>

\* main(), step 2: fetch_harvard_papers(), return when there are none
HFetch ==
    /\ variant = "harvard" /\ pc = "fetch"
    /\ \E answer \in {"ok", "bozo", "raise"} :
         LET got == FetchHarvardPapers(answer, IF answer = "ok" THEN feed ELSE << >>)
         IN /\ papers' = got
            /\ feedAnswer' = answer
            /\ trouble' = (trouble \/ answer # "ok")
            /\ pc' = IF NoPapers(got) THEN "done" ELSE HarvardAfter(0, Len(got))
    /\ contacted' = contacted \cup {"feed"}
    /\ idx' = 1 /\ successful' = 0 /\ failed' = 0
    /\ UNCHANGED << Fixed, run, exitCode, lidx, analysis, report, sink, files,
                    now, attempted, enrichLog, fetchLog, writes, sinkRun1 >>

\* main(), step 3, first half: analyze_paper_with_ai(paper), count a failure
\* and continue when it returned nothing
HAnalyze ==
    /\ variant = "harvard" /\ pc = "analyze"
    /\ \E answer \in world.enricher :
         LET value == AnalyzePaperWithAI(answer)
         IN /\ enrichLog' = Append(enrichLog,
                   [idx |-> idx, request |-> TextToAnalyze(papers[idx]),
                    answer |-> answer, result |-> value])
            /\ trouble' = (trouble \/ answer # 1)
            /\ IF NotAnalysis(value)
               THEN /\ failed' = failed + 1
                    /\ idx' = idx + 1
                    /\ pc' = HarvardAfter(idx, Len(papers))
                    /\ analysis' = analysis
               ELSE /\ failed' = failed
                    /\ idx' = idx
                    /\ pc' = "store"
                    /\ analysis' = value
    /\ attempted' = Append(attempted, idx)
    /\ contacted' = contacted \cup {"enricher"}
    /\ UNCHANGED << Fixed, run, exitCode, papers, lidx, successful, report,
                    sink, files, now, fetchLog, writes, sinkRun1,
                    feedAnswer >>

\* store_in_supabase() reporting success for any upsert that did not raise
DidNotRaise(answer) == answer # "raise"

\* store_in_supabase(): "if result.data" on an upsert that did not raise
ReturnedData(answer) == answer = "data"

\* main(), step 3, second half: store_in_supabase(paper, analysis); the
\* upsert returns rows, returns none, or raises
HStore ==
    /\ variant = "harvard" /\ pc = "store"
    /\ \E answer \in world.database :
         LET data == SupabaseData(papers[idx], analysis, now)
         IN /\ sink' = IF answer = "data"
                       THEN Upsert(sink, data.paper_id, data) ELSE sink
            /\ writes' = Append(writes,
                   [run |-> run, idx |-> idx, key |-> data.paper_id,
                    answer |-> answer])
            /\ trouble' = (trouble \/ answer # "data")
            /\ successful' = IF ReturnedData(answer) THEN successful + 1
                                                      ELSE successful
            /\ failed' = IF ReturnedData(answer) THEN failed ELSE failed + 1
    /\ now' = now + 1
    /\ idx' = idx + 1
    /\ pc' = HarvardAfter(idx, Len(papers))
    /\ contacted' = contacted \cup {"sink"}
    /\ UNCHANGED << Fixed, run, exitCode, papers, lidx, analysis, report,
                    files, attempted, enrichLog, fetchLog, sinkRun1,
                    feedAnswer >>

\* main(), step 4: the summary; successful/len(papers) raises
\* ZeroDivisionError on an empty list
HSummary ==
    /\ variant = "harvard" /\ pc = "summary"
    /\ IF Len(papers) = 0
       THEN pc' = "crashed" /\ exitCode' = 1 /\ report' = report
       ELSE /\ pc' = "done" /\ exitCode' = exitCode
            /\ report' = [printed |-> TRUE, fetched |-> Len(papers),
                          successful |-> successful, failed |-> failed,
                          rate |-> (successful * 1000) \div Len(papers)]
    /\ UNCHANGED << Fixed, run, papers, idx, lidx, analysis, successful,
                    failed, sink, files, now, contacted, attempted, enrichLog,
                    fetchLog, writes, trouble, sinkRun1, feedAnswer >>

-----------------------------------------------------------------------------
(* dash_ingest.py *)

\* lines 7-13: os.environ[...] raises KeyError when the variable is unset,
\* from_connection_string raises on an empty string; then the feed is parsed
DStart ==
    /\ variant = "dash" /\ pc = "start"
    /\ \E answer \in {"ok", "bozo", "raise"} :
         IF ~ConnectionStringAccepted(env["AZURE_STORAGE_CONN_STRING"])
         THEN /\ pc' = "crashed" /\ exitCode' = 1
              /\ UNCHANGED << papers, contacted, trouble, feedAnswer >>
         ELSE /\ contacted' = contacted \cup {"feed"}
              /\ feedAnswer' = answer
              /\ trouble' = (trouble \/ answer # "ok")
              /\ IF answer = "raise"
                 THEN pc' = "crashed" /\ exitCode' = 1 /\ papers' = papers
                 ELSE /\ papers' = IF answer = "ok" THEN feed ELSE << >>
                      /\ pc' = BlobAfter(0, Len(papers'))
                      /\ exitCode' = exitCode
    /\ idx' = 1 /\ lidx' = 1
    /\ UNCHANGED << Fixed, run, HarvardLocals, sink, files, now, attempted,
                    enrichLog, fetchLog, writes, sinkRun1 >>

\* one pass of the inner loop (lines 16-31) for entry idx, link lidx, given
\* the answers of list_blobs, requests.get (0: raised) and upload_blob
DashLinkOutcome(listAnswer, status, putAnswer) ==
    LET links == papers[idx].links
        more == lidx < Len(links)
        on == [pc |-> IF more THEN "loop" ELSE BlobAfter(idx, Len(papers)),
               exitCode |-> exitCode,
               idx |-> IF more THEN idx ELSE idx + 1,
               lidx |-> IF more THEN lidx + 1 ELSE 1,
               sink |-> sink, fetchLog |-> fetchLog, writes |-> writes,
               trouble |-> trouble, contacted |-> contacted]
        crash == [on EXCEPT !.pc = "crashed", !.exitCode = 1, !.idx = idx,
                            !.lidx = lidx, !.trouble = TRUE]
    IN IF lidx > Len(links) \/ links[lidx].type # PdfType THEN on
       ELSE LET href == links[lidx].href
                name == DashBlobName(href)
                fetched == [idx |-> idx, url |-> href, status |-> status]
                wrote == [run |-> run, idx |-> idx, key |-> name,
                          answer |-> putAnswer]
            IN IF listAnswer = "raise"
               THEN [crash EXCEPT !.contacted = contacted \cup {"sink"}]
               ELSE IF name \in SinkKeys(sink)
               THEN [on EXCEPT !.contacted = contacted \cup {"sink"}]
               ELSE IF status = 0
               THEN [crash EXCEPT !.contacted = contacted \cup {"sink", "fetcher"},
                                  !.fetchLog = Append(fetchLog, fetched)]
               ELSE IF status # HTTP_OK
               THEN [on EXCEPT !.contacted = contacted \cup {"sink", "fetcher"},
                               !.fetchLog = Append(fetchLog, fetched),
                               !.trouble = TRUE]
               ELSE IF putAnswer = "raise"
               THEN [crash EXCEPT !.contacted = contacted \cup {"sink", "fetcher"},
                                  !.fetchLog = Append(fetchLog, fetched),
                                  !.writes = Append(writes, wrote)]
               ELSE [on EXCEPT !.contacted = contacted \cup {"sink", "fetcher"},
                               !.fetchLog = Append(fetchLog, fetched),
                               !.writes = Append(writes, wrote),
                               !.sink = Append(sink,
                                   [key |-> name, val |-> HttpBody(href, status)])]

DLink ==
    /\ variant = "dash" /\ pc = "loop"
    /\ \E listAnswer \in {"ok", "raise"}, status \in {0, HTTP_OK, 404},
          putAnswer \in {"ok", "raise"} :
         LET out == DashLinkOutcome(listAnswer, status, putAnswer)
         IN /\ pc' = out.pc /\ exitCode' = out.exitCode
            /\ idx' = out.idx /\ lidx' = out.lidx
            /\ sink' = out.sink /\ fetchLog' = out.fetchLog
            /\ writes' = out.writes /\ trouble' = out.trouble
            /\ contacted' = out.contacted
    /\ attempted' = IF lidx = 1 THEN Append(attempted, idx) ELSE attempted
    /\ UNCHANGED << Fixed, run, papers, HarvardLocals, files, now, enrichLog,
                    sinkRun1, feedAnswer >>

-----------------------------------------------------------------------------
(* pipeline.py *)

\* lines 13-30: the connection string is read with os.environ.get, and
\* from_connection_string raises on None and on ""; then the feed is parsed
PStart ==
    /\ variant = "pipeline" /\ pc = "start"
    /\ \E answer \in {"ok", "bozo", "raise"} :
         IF ~ConnectionStringAccepted(env["AZURE_CONNECTION_STRING"])
         THEN /\ pc' = "crashed" /\ exitCode' = 1
              /\ UNCHANGED << papers, contacted, trouble, feedAnswer >>
         ELSE /\ contacted' = contacted \cup {"feed"}
              /\ feedAnswer' = answer
              /\ trouble' = (trouble \/ answer # "ok")
              /\ IF answer = "raise"
                 THEN pc' = "crashed" /\ exitCode' = 1 /\ papers' = papers
                 ELSE /\ papers' = IF answer = "ok" THEN feed ELSE << >>
                      /\ pc' = BlobAfter(0, Len(papers'))
                      /\ exitCode' = exitCode
    /\ idx' = 1
    /\ UNCHANGED << Fixed, run, lidx, HarvardLocals, sink, files, now,
                    attempted, enrichLog, fetchLog, writes, sinkRun1 >>

\* one pass of the loop (lines 34-62) for entry idx, given the answers of
\* requests.get (0: raised) and upload_blob
PipelineEntryOutcome(status, putAnswer) ==
    LET entry == papers[idx]
        name == PipelineFilename(entry.title)
        on == [pc |-> BlobAfter(idx, Len(papers)), exitCode |-> exitCode,
               idx |-> idx + 1, sink |-> sink, files |-> files,
               fetchLog |-> fetchLog, writes |-> writes, trouble |-> trouble,
               contacted |-> contacted]
        cached == name \in SinkKeys(files)
        fetched == [idx |-> idx, url |-> entry.link, status |-> status]
        wrote == [run |-> run, idx |-> idx, key |-> name,
                  answer |-> putAnswer]
        \* after step 4
        had == IF cached THEN on
               ELSE [on EXCEPT !.contacted = contacted \cup {"fetcher"},
                               !.fetchLog = Append(fetchLog, fetched),
                               !.trouble = trouble \/ status # HTTP_OK,
                               !.files = Upsert(files, name,
                                                HttpBody(entry.link, status))]
    IN IF ~IsPdfLink(entry.link) THEN on
       ELSE IF ~cached /\ status = 0
       THEN [on EXCEPT !.pc = "crashed", !.exitCode = 1, !.idx = idx,
                       !.contacted = contacted \cup {"fetcher"},
                       !.fetchLog = Append(fetchLog, fetched),
                       !.trouble = TRUE]
       ELSE IF putAnswer = "raise"
       THEN [had EXCEPT !.pc = "crashed", !.exitCode = 1, !.idx = idx,
                        !.contacted = had.contacted \cup {"sink"},
                        !.writes = Append(writes, wrote),
                        !.trouble = TRUE]
       ELSE [had EXCEPT !.contacted = had.contacted \cup {"sink"},
                        !.writes = Append(writes, wrote),
                        !.sink = Upsert(sink, name, BlobOf(had.files, name))]

PEntry ==
    /\ variant = "pipeline" /\ pc = "loop"
    /\ \E status \in {0, HTTP_OK, 404}, putAnswer \in {"ok", "raise"} :
         LET out == PipelineEntryOutcome(status, putAnswer)
         IN /\ pc' = out.pc /\ exitCode' = out.exitCode /\ idx' = out.idx
            /\ sink' = out.sink /\ files' = out.files
            /\ fetchLog' = out.fetchLog /\ writes' = out.writes
            /\ trouble' = out.trouble /\ contacted' = out.contacted
    /\ attempted' = Append(attempted, idx)
    /\ UNCHANGED << Fixed, run, papers, lidx, HarvardLocals, now, enrichLog,
                    sinkRun1, feedAnswer >>

-----------------------------------------------------------------------------
(* Invocations *)

\* the script is invoked again (the scheduled workflow): a fresh process
\* against the same feed and the sink as it was left; DOWNLOAD_DIR either
\* survives (same machine) or is gone (fresh checkout)
NextRun ==
    /\ pc \in Terminal /\ run < runs
    /\ run' = run + 1
    /\ pc' = "start" /\ exitCode' = 0
    /\ papers' = << >> /\ idx' = 1 /\ lidx' = 1
    /\ analysis' = PyNone /\ successful' = 0 /\ failed' = 0
    /\ report' = NoReport
    /\ contacted' = {} /\ attempted' = << >>
    /\ enrichLog' = << >> /\ fetchLog' = << >> /\ feedAnswer' = "none"
    /\ sinkRun1' = IF run = 1 THEN sink ELSE sinkRun1
    /\ \E kept \in BOOLEAN : files' = IF kept THEN files ELSE << >>
    /\ UNCHANGED << Fixed, sink, now, writes, trouble >>

-----------------------------------------------------------------------------
(* Feed entries of the model *)

Entry1 ==
    [title |-> << "A", " ", "B" >>,
     link |-> << "a", "/", "x", ".", "p", "d", "f" >>,
     id |-> << "g", "1" >>,
     summary |-> << "s", "1" >>,
     author |-> << "N" >>,
     published |-> << "2", "5" >>,
     links |-> << [type |-> PdfType,
                   href |-> << "a", "/", "x", ".", "p", "d", "f" >>] >>]

Entry2 ==
    [title |-> << "A", "/", "B" >>,
     link |-> << "b", "/", "x", ".", "p", "d", "f" >>,
     summary |-> << "s", "2" >>,
     links |-> << [type |-> HtmlType, href |-> << "b", "/", "x" >>],
                  [type |-> PdfType,
                   href |-> << "b", "/", "x", ".", "p", "d", "f" >>] >>]

Entry3 ==
    [title |-> << "C" >>,
     link |-> << "a", "/", "z" >>,
     id |-> << "g", "3" >>,
     links |-> << [type |-> HtmlType, href |-> << "a", "/", "z" >>] >>]

Pool == << Entry1, Entry2, Entry3 >>

SettingsOf(v) ==
    CASE v = "harvard" -> RequiredSettings
      [] v = "dash" -> {"AZURE_STORAGE_CONN_STRING"}
      [] v = "pipeline" -> {"AZURE_CONNECTION_STRING"}

AnyWorld ==
    [enricher |-> 0..Len(Replies), database |-> {"data", "nodata", "raise"}]

\* the state of a process about to start its first invocation
Start(v, e, f, r, w) ==
    /\ variant = v /\ env = e /\ feed = f /\ runs = r /\ world = w
    /\ run = 1 /\ pc = "start" /\ exitCode = 0
    /\ papers = << >> /\ idx = 1 /\ lidx = 1
    /\ analysis = PyNone /\ successful = 0 /\ failed = 0 /\ report = NoReport
    /\ sink = << >> /\ files = << >> /\ now = 0
    /\ contacted = {} /\ attempted = << >>
    /\ enrichLog = << >> /\ fetchLog = << >> /\ writes = << >>
    /\ trouble = FALSE /\ sinkRun1 = << >> /\ feedAnswer = "none"

\* worlds in which the Enricher and the database each fail in at most one way
OneFaultWorlds ==
    {[enricher |-> {1, a}, database |-> {"data"}] : a \in 0..Len(Replies)}
    \cup {[enricher |-> {1}, database |-> {"data", b}] : b \in {"nodata", "raise"}}

\* every script, every environment, every feed of at most MaxFeed entries of
\* Pool, any answer at any call, one invocation
Init ==
    \E v \in {"harvard", "dash", "pipeline"} :
      \E e \in [SettingsOf(v) -> {"None", "", "v"}] :
        \E n \in 0..MaxFeed :
          \E f \in [1..n -> 1..Len(Pool)] :
            Start(v, e, [i \in 1..n |-> Pool[f[i]]], 1, AnyWorld)

\* the same, invoked twice, configured, against services with one fault
InitTwice ==
    \E v \in {"harvard", "dash", "pipeline"} :
      \E w \in OneFaultWorlds :
        \E n \in 0..MaxFeed :
          \E f \in [1..n -> 1..Len(Pool)] :
            Start(v, [name \in SettingsOf(v) |-> "v"],
                  [i \in 1..n |-> Pool[f[i]]], 2, w)

Digits == << "0", "1", "2", "3", "4", "5", "6", "7", "8", "9" >>

RECURSIVE Decimal(_)
Decimal(n) ==
    IF n < 10 THEN << Digits[n + 1] >>
    ELSE Decimal(n \div 10) \o << Digits[(n % 10) + 1] >>

\* the i-th entry of a long feed
BatchEntry(i) ==
    [title |-> << "T" >> \o Decimal(i),
     link |-> << "l", "/" >> \o Decimal(i),
     id |-> << "g" >> \o Decimal(i),
     summary |-> << "s" >>]

\* ingest_harvard.py against feeds of up to MAX_PAPERS_PER_RUN + BatchSlack
\* distinct entries
InitBatch ==
    \E w \in {[enricher |-> {1}, database |-> {"data"}],
              [enricher |-> {0, 1}, database |-> {"data"}],
              [enricher |-> {1}, database |-> {"data", "raise"}]} :
      \E n \in 0..(MAX_PAPERS_PER_RUN + BatchSlack) :
        Start("harvard", [name \in RequiredSettings |-> "v"],
              [i \in 1..n |-> BatchEntry(i)], 1, w)

\* a summary of n characters
SummaryOfLength(n) == [i \in 1..n |-> Digits[(i % 10) + 1]]

\* summary lengths within TruncSlack of 0 and of the two limits
TruncLengths ==
    (0..TruncSlack)
    \cup ((SUMMARY_COLUMN_LENGTH - TruncSlack)..(SUMMARY_COLUMN_LENGTH + TruncSlack))
    \cup ((MAX_TEXT_LENGTH - TruncSlack)..(MAX_TEXT_LENGTH + TruncSlack))

\* ingest_harvard.py against a feed of one entry with a summary of any of
\* these lengths, with and without the optional fields
InitTrunc ==
    \E n \in TruncLengths :
      \E bare \in BOOLEAN :
        Start("harvard", [name \in RequiredSettings |-> "v"],
              << IF bare THEN [summary |-> SummaryOfLength(n)]
                 ELSE [Entry1 EXCEPT !.summary = SummaryOfLength(n)] >>,
              1, AnyWorld)

NextHarvard == HValidate \/ HFetch \/ HAnalyze \/ HStore \/ HSummary

NextOnce ==
    \/ HValidate \/ HFetch \/ HAnalyze \/ HStore \/ HSummary
    \/ DStart \/ DLink
    \/ PStart \/ PEntry

Next == NextOnce \/ NextRun

\* one invocation of any script
Spec == Init /\ [][NextOnce]_vars

\* two invocations in sequence
SpecTwice == InitTwice /\ [][Next]_vars

\* one invocation of ingest_harvard.py on long feeds
SpecBatch == InitBatch /\ [][NextHarvard]_vars

\* one invocation of ingest_harvard.py on long summaries
SpecTrunc == InitTrunc /\ [][NextHarvard]_vars

-----------------------------------------------------------------------------
(* Vocabulary of the properties *)

Over == pc \in Terminal

Indices(seq) == 1..Len(seq)

\* the sink key the running script derives from a feed entry
KeyOf(entry) ==
    CASE variant = "harvard" -> PaperOf(entry).id
      [] variant = "dash" ->
           DashBlobName(entry.links[CHOOSE k \in Indices(entry.links) :
                                      entry.links[k].type = PdfType].href)
      [] variant = "pipeline" -> PipelineFilename(entry.title)

\* the positions of the feed snapshot whose entry the running script ingests
Eligible ==
    {i \in Indices(feed) :
       CASE variant = "harvard" -> i <= MAX_PAPERS_PER_RUN
         [] variant = "dash" ->
              \E k \in Indices(feed[i].links) : feed[i].links[k].type = PdfType
         [] variant = "pipeline" -> IsPdfLink(feed[i].link)}

\* the distinct items among them: first occurrences
EligibleItems == {i \in Eligible : \A j \in Eligible : j < i => feed[j] # feed[i]}

EligibleKeys == {KeyOf(feed[i]) : i \in Eligible}

WritesOfRun(r) == {k \in Indices(writes) : writes[k].run = r}

\* some required setting of the running script is absent or empty
ConfigMissing == \E name \in SettingsOf(variant) : ~EnvTruthy(env[name])

-----------------------------------------------------------------------------
(* C1 *)

-----------------------------------------------------------------------------
(* C2 *)

\* C2: once the item loop has begun, the invocation reaches its end with
\* every item attempted, in feed order, whatever failed on the way.
C2_FailureIsolation ==
    (Over /\ papers # << >>) =>
        /\ pc = "done"
        /\ attempted = [i \in Indices(papers) |-> i]

-----------------------------------------------------------------------------
(* C3 *)

\* C3: with a required setting absent or empty no external service is
\* contacted, no item is attempted and the exit status is non-zero; with all
\* of them present the exit status is never non-zero.
C3_ExitOnlyOnMissingConfig ==
    /\ ConfigMissing =>
         /\ contacted = {} /\ attempted = << >>
         /\ Over => exitCode # 0
    /\ ~ConfigMissing => exitCode = 0

-----------------------------------------------------------------------------
(* C4 *)

\* C4: in the blob variants an item whose fetch returned a non-success
\* status gets no sink write, and the loop goes on to the next item.
C4_OnlySuccessIsContent ==
    variant \in {"dash", "pipeline"} =>
        \A f \in Indices(fetchLog) :
            fetchLog[f].status \notin {0, HTTP_OK} =>
                /\ \A k \in WritesOfRun(run) : writes[k].idx # fetchLog[f].idx
                /\ Over => \/ fetchLog[f].idx = Len(papers)
                           \/ \E a \in Indices(attempted) :
                                attempted[a] > fetchLog[f].idx

-----------------------------------------------------------------------------
(* C5 *)

\* the reply is a structured object with the five keys
WellFormedReply(answer) ==
    LET parsed == JsonLoads(PyStrip(Replies[answer]))
    IN /\ parsed.ok
       /\ parsed.val.t = "dict"
       /\ {"topic", "findings", "methodology", "significance", "keywords"}
              \subseteq DOMAIN parsed.val.d

\* the documented default Annotation
DefaultShape(value) ==
    /\ value.t = "dict"
    /\ DOMAIN value.d =
           {"topic", "findings", "methodology", "significance", "keywords"}
    /\ value.d.topic # << >>
    /\ Len(value.d.findings) = 1
    /\ value.d.significance # << >>
    /\ value.d.keywords # << >>

\* C5: whenever the Enricher returned text that is no well-formed object,
\* analyze_paper_with_ai returned the default Annotation and the item went
\* on to the sink write.
C5_DefaultSubstitution ==
    variant = "harvard" =>
        \A k \in Indices(enrichLog) :
            LET e == enrichLog[k]
            IN (e.answer # 0 /\ ~WellFormedReply(e.answer)) =>
                   /\ DefaultShape(e.result)
                   /\ \/ pc = "store" /\ idx = e.idx
                      \/ \E w \in WritesOfRun(run) : writes[w].idx = e.idx

-----------------------------------------------------------------------------
(* C6 *)

\* C6: a run over a feed of N entries works on the first min(N, M) entries,
\* each attempted once in feed order; no Enricher call and no sink write is
\* made for an entry beyond the M-th.
C6_BatchBound ==
    /\ feedAnswer = "ok" =>
         /\ Len(papers) = Min(Len(feed), MAX_PAPERS_PER_RUN)
         /\ \A i \in Indices(papers) : papers[i] = PaperOf(feed[i])
    /\ \A a \in Indices(attempted) : attempted[a] = a
    /\ Len(attempted) <= Min(Len(feed), MAX_PAPERS_PER_RUN)
    /\ (Over /\ feedAnswer = "ok") =>
         Len(attempted) = Min(Len(feed), MAX_PAPERS_PER_RUN)
    /\ \A k \in Indices(enrichLog) :
         /\ enrichLog[k].idx <= MAX_PAPERS_PER_RUN
         /\ enrichLog[k].request = TextToAnalyze(PaperOf(feed[enrichLog[k].idx]))
    /\ \A k \in Indices(writes) :
         /\ writes[k].idx <= MAX_PAPERS_PER_RUN
         /\ writes[k].key = PaperOf(feed[writes[k].idx]).id
    /\ \A i \in Indices(feed) :
         i > MAX_PAPERS_PER_RUN =>
           /\ \A k \in Indices(enrichLog) :
                enrichLog[k].request # TextToAnalyze(PaperOf(feed[i]))
           /\ PaperOf(feed[i]).id \notin SinkKeys(sink)

\* a finished run over a feed longer than the maximum
C6_Witness ==
    /\ pc = "done" /\ Len(feed) > MAX_PAPERS_PER_RUN
    /\ Len(attempted) = MAX_PAPERS_PER_RUN
    /\ Len(enrichLog) = MAX_PAPERS_PER_RUN
    /\ Len(sink) = MAX_PAPERS_PER_RUN

-----------------------------------------------------------------------------
(* C7 *)

\* the summary part of a request: what stands between the labels and the
\* closing newline
SummarySent(paper, request) ==
    SubSeq(request,
           Len(TitleLabel) + Len(paper.title) + Len(AuthorsLabel)
             + Len(paper.authors) + Len(PublishedLabel) + Len(paper.published)
             + Len(SummaryLabel) + 1,
           Len(request) - 1)

IsPrefixOfLength(part, whole, n) ==
    /\ Len(part) = n
    /\ \A i \in 1..n : part[i] = whole[i]

\* C7: the summary in the request is the first min(len, MAX_TEXT_LENGTH)
\* characters of the summary, the stored summary is its first min(len, 500)
\* characters, and the text sent to the Enricher stays within
\* MAX_TEXT_LENGTH characters.
C7_Truncation ==
    /\ \A k \in Indices(enrichLog) :
         LET paper == papers[enrichLog[k].idx]
             sent == SummarySent(paper, enrichLog[k].request)
         IN /\ IsPrefixOfLength(sent, paper.summary,
                                Min(Len(paper.summary), MAX_TEXT_LENGTH))
            /\ Len(enrichLog[k].request) <= MAX_TEXT_LENGTH
    /\ \A k \in Indices(writes) :
         writes[k].answer = "data" =>
           \A r \in Indices(sink) :
             sink[r].key = writes[k].key =>
               IsPrefixOfLength(sink[r].val.summary, papers[writes[k].idx].summary,
                   Min(Len(papers[writes[k].idx].summary), SUMMARY_COLUMN_LENGTH))

\* the two truncations alone, which the code performs
C7_SummaryTruncated ==
    /\ \A k \in Indices(enrichLog) :
         LET paper == papers[enrichLog[k].idx]
         IN IsPrefixOfLength(SummarySent(paper, enrichLog[k].request),
                             paper.summary,
                             Min(Len(paper.summary), MAX_TEXT_LENGTH))
    /\ \A r \in Indices(sink) :
         IsPrefixOfLength(sink[r].val.summary, papers[1].summary,
                          Min(Len(papers[1].summary), SUMMARY_COLUMN_LENGTH))

-----------------------------------------------------------------------------
(* C8 *)

\* C8: when the feed raised, did not parse or had no entries,
\* fetch_harvard_papers returned the empty list and main() ended there:
\* exit status 0, no Enricher call, no sink write, no summary.
C8_SourceFailure ==
    (variant = "harvard" /\ feedAnswer # "none"
       /\ (feedAnswer \in {"bozo", "raise"} \/ feed = << >>)) =>
        /\ papers = << >>
        /\ pc = "done" /\ exitCode = 0
        /\ attempted = << >> /\ enrichLog = << >> /\ WritesOfRun(run) = {}
        /\ contacted = {"feed"}
        /\ report = NoReport

\* the feed raised although entries were there to serve
C8_Witness ==
    /\ variant = "harvard" /\ feedAnswer = "raise" /\ feed # << >>
    /\ pc = "done"

-----------------------------------------------------------------------------
(* C9 *)

\* the sink writes of the current invocation
ThisRun == SelectSeq(writes, LAMBDA w : w.run = run)

Count(seq, Test(_)) == Cardinality({k \in Indices(seq) : Test(seq[k])})

\* C9: in main() of ingest_harvard.py every attempted item has exactly one
\* Enricher call; a sink write is made at most once per item and only for an
\* item whose analysis came back; an item without analysis gets no write and
\* one failure; success is counted only for writes that returned data; and
\* successful + failed is the number of items finished.
C9_OutcomeAccounting ==
    variant = "harvard" =>
        /\ Len(enrichLog) = Len(attempted)
        /\ \A k \in Indices(enrichLog) :
             enrichLog[k].idx = k /\ attempted[k] = k
        /\ \A j, k \in Indices(ThisRun) : j # k => ThisRun[j].idx # ThisRun[k].idx
        /\ \A k \in Indices(ThisRun) :
             /\ ThisRun[k].idx \in Indices(enrichLog)
             /\ PyTruthy(enrichLog[ThisRun[k].idx].result)
        /\ \A k \in Indices(enrichLog) :
             enrichLog[k].answer = 0 =>
               /\ enrichLog[k].result = PyNone
               /\ \A w \in Indices(ThisRun) : ThisRun[w].idx # k
        /\ successful = Count(ThisRun, LAMBDA w : w.answer = "data")
        /\ failed = Count(enrichLog, LAMBDA e : ~PyTruthy(e.result))
                      + Count(ThisRun, LAMBDA w : w.answer # "data")
        /\ pc \in {"analyze", "store", "summary"} => successful + failed = idx - 1
        /\ (pc = "done" /\ papers # << >>) =>
             /\ successful + failed = Len(papers)
             /\ report = [printed |-> TRUE, fetched |-> Len(papers),
                          successful |-> successful, failed |-> failed,
                          rate |-> (successful * 1000) \div Len(papers)]

\* a finished run with a stored item, an item whose enrichment raised and an
\* item whose write returned no data
C9_Witness ==
    /\ variant = "harvard" /\ pc = "done"
    /\ successful >= 1 /\ failed >= 1
    /\ \E k \in Indices(enrichLog) : enrichLog[k].answer = 0

-----------------------------------------------------------------------------
(* C10 *)

\* the link the content of entry i is fetched from
ContentLink(i) ==
    IF variant = "dash"
    THEN papers[i].links[CHOOSE k \in Indices(papers[i].links) :
                           papers[i].links[k].type = PdfType].href
    ELSE papers[i].link

\* the record under key holds what item i carries
HoldsContentOf(val, i) ==
    IF variant = "harvard" THEN val.title = papers[i].title /\ val.link = papers[i].link
    ELSE Tail(val) = ContentLink(i)

\* C10, on runs in which every external call succeeded: at the end of the
\* run, different feed items have different sink keys, no key was written
\* for two different items, and the record under a written key holds the
\* content of the item it was written for.
C10_KeysUnique ==
    (pc = "done" /\ ~trouble) =>
        /\ \A i, j \in Eligible :
             feed[i] # feed[j] => KeyOf(feed[i]) # KeyOf(feed[j])
        /\ \A j, k \in WritesOfRun(run) :
             writes[j].key = writes[k].key =>
               papers[writes[j].idx] = papers[writes[k].idx]
        /\ \A k \in WritesOfRun(run) :
             writes[k].answer \in {"ok", "data"} =>
               \A r \in Indices(sink) :
                 sink[r].key = writes[k].key => HoldsContentOf(sink[r].val, writes[k].idx)

====
